---------------------------- MODULE Spec2Model ----------------------------
(***************************************************************************)
(* Model of builder-agent's change-triggered alerting and deduplication.   *)
(*                                                                         *)
(*  - the polling daemon (runCheck / checkRepo, with the in-memory         *)
(*    repoState map, isRunning, checkCount, lastCheck);                    *)
(*  - the error monitor (logError / checkAlertThreshold / triggerAlert,    *)
(*    with the persisted error log and the persisted alert record).        *)
(*                                                                         *)
(* Every `await` of the daemon is a scheduling point: an action of the     *)
(* daemon is "one awaited call returns, and the synchronous code runs up   *)
(* to the next await".  Dates are logical stamps.                          *)
(***************************************************************************)
EXTENDS Integers, Sequences, FiniteSets, TLC

VARIABLES
  \* ---- daemon (process memory)
  isRunning,    \* let isRunning
  checkCount,   \* let checkCount
  lastCheck,    \* let lastCheck (0 = null, else the stamp of the cycle that set it)
  repoState,    \* const repoState = new Map()
  targets,      \* config.targetRepos, read from the environment at startup
  procs,        \* in-flight invocations of runCheck, each with its position and locals
  \* ---- the outside world of the daemon
  prCount,      \* per repository: dependency-update PRs opened so far (its PR numbers)
  tick,         \* the scheduler: a bit flipped by every tick, and the last tick's fate
  shadow,       \* the per-target state an uninterrupted process would hold
  started,      \* target checks begun since the model's first state, over all restarts
  seen,         \* per target: the count observed by its previous check in this process
  snapshot,     \* what the fetches return: anything (live), or one fixed snapshot (replay)
  released,     \* per target: a release was published after its last release notice
  visits,       \* per target: calls of checkRepo in the cycle in progress (or just ended)
  \* ---- error monitor (files under data/)
  errors,       \* data/errors.json
  alerts,       \* data/error-alerts.json : fingerprint -> time of last alert
  errConfig,    \* data/error-config.json merged over the defaults
  now,          \* the clock, in minutes
  logged,       \* number of logError calls so far
  lastLog,      \* what the most recent logError call did
  firings,      \* the alerts fired so far: when, and by which logError call
  advances,     \* clock steps taken by the scripted scenario
  writers,      \* processes inside logError on the shared data directory
  reply         \* what the most recent call of the monitor's API returned

vars == <<isRunning, checkCount, lastCheck, repoState, targets, procs, prCount, tick, shadow, seen, started,
          snapshot, released, visits,
          errors, alerts, errConfig, now, logged, lastLog, firings, advances, writers, reply>>

daemonVars == <<isRunning, checkCount, lastCheck, repoState, targets, procs, prCount, tick, shadow,
                seen, started, snapshot, released, visits>>
monitorVars == <<errors, alerts, errConfig, now, logged, lastLog, firings, advances, writers, reply>>

-----------------------------------------------------------------------------
(* Bounds of the model *)

MaxChecks == 8       \* target checks (cycles x targets) begun in one behaviour
MaxInvocations == 2  \* runCheck invocations that may be in flight at once
MaxFailed == 2       \* largest failed-build count a status fetch reports
MaxDetails == 4      \* largest number of failed runs getFailedBuildDetails returns
MaxEvents == 4       \* logError calls in one behaviour
MaxTime == 5         \* the clock stops here (minutes)
MaxFurther == 3      \* scripted scenario: events recorded after the quiet period
MaxAdvances == 3     \* scripted scenario: clock steps
MaxWriters == 2      \* processes sharing the data directory
MaxOverflow == 2     \* events recorded beyond the log's capacity
MaxApiEvents == 2    \* events recorded before the log is queried
MaxWaits == 2        \* clock steps between the calls of the monitor's API
MaxLimit == 2        \* largest `limit` asked of getUnacknowledgedErrors

-----------------------------------------------------------------------------
(* Configuration (src/src/config.js) *)

Repos == {"r1", "r2"}

AutoUpdate == [patch |-> TRUE, minor |-> TRUE, major |-> FALSE]

NotifyOnBuildFailure == TRUE

DepsEvery == 4       \* checkCount % 4 === 0

DetailSlice == 3     \* failures.slice(0, 3)

UpdateTypes == {"major", "minor", "patch"}

-----------------------------------------------------------------------------
(* Error monitor: strings, fingerprints (src/src/error-monitor.js) *)

\* The characters of the strings the model uses (their ASCII codes)
Chars(str) ==
  CASE str = "" -> <<>>
    [] str = "db" -> <<100, 98>>
    [] str = "x" -> <<120>>
    [] str = "y" -> <<121>>
    [] str = "error" -> <<101, 114, 114, 111, 114>>
    [] str = "critical" -> <<99, 114, 105, 116, 105, 99, 97, 108>>
    [] str = "warning" -> <<119, 97, 114, 110, 105, 110, 103>>
    [] str = "unknown" -> <<117, 110, 107, 110, 111, 119, 110>>

Bar == 124           \* '|'

Pad == 64            \* '=' in a base64 text, whose digits are 0..63

FingerprintLen == 16 \* .substring(0, 16)

MessagePrefix == 100 \* error.message?.substring(0, 100)

KeepLast == 1000     \* errors.slice(-1000)

Min(a, b) == IF a < b THEN a ELSE b

\* s.substring(0, n)
Substring(s, n) == SubSeq(s, 1, Min(n, Len(s)))

\* Buffer.from(bytes).toString('base64')
RECURSIVE Base64(_)
Base64(b) ==
  IF Len(b) = 0 THEN <<>>
  ELSE IF Len(b) = 1
    THEN <<b[1] \div 4, (b[1] % 4) * 16, Pad, Pad>>
  ELSE IF Len(b) = 2
    THEN <<b[1] \div 4, (b[1] % 4) * 16 + (b[2] \div 16), (b[2] % 16) * 4, Pad>>
  ELSE <<b[1] \div 4, (b[1] % 4) * 16 + (b[2] \div 16),
         (b[2] % 16) * 4 + (b[3] \div 64), b[3] % 64>>
       \o Base64(SubSeq(b, 4, Len(b)))

\* generateFingerprint(error): absent fields count as ''
generateFingerprint(error) ==
  LET parts == Chars(error.source) \o <<Bar>>
               \o Substring(Chars(error.message), MessagePrefix) \o <<Bar>>
               \o Chars(error.severity)
  IN Substring(Base64(parts), FingerprintLen)

\* The errors callers log; "" stands for a field the caller left out
Inputs ==
  { [source |-> "db", message |-> "x", severity |-> "error"],
    [source |-> "db", message |-> "y", severity |-> "critical"],
    [source |-> "db", message |-> "x", severity |-> "warning"] }

SameError == [source |-> "db", message |-> "x", severity |-> "error"]

\* loadErrorConfig's defaults
DefaultConfig ==
  [alertThreshold |-> 10, windowMinutes |-> 60, silenceMinutes |-> 15,
   severityFilter |-> {"error", "critical"}]

\* An error-config.json with a low threshold and short periods
QuickConfig ==
  [alertThreshold |-> 2, windowMinutes |-> 3, silenceMinutes |-> 2,
   severityFilter |-> {"error", "critical"}]

NoAlerts == [f \in {} |-> 0]

\* Processes that may call logError on the same data directory
Writers == 1..MaxWriters

\* a process that is not inside logError
IdleWriter == [pc |-> "idle", local |-> <<>>, entry |-> <<>>]

NoLog == [fired |-> FALSE, at |-> 0, fp |-> <<>>, reported |-> {}, before |-> NoAlerts,
          count |-> 0]

Absent == -1         \* the time in a field the entry does not have (acknowledgedAt)

\* what a call returned: `found` is false for a null result, `before` is the
\* log the call read when it went on to write it
Reply(op, time, args, found, result, before) ==
  [op |-> op, at |-> time, args |-> args, found |-> found, result |-> result,
   before |-> before]

NoReply == Reply("none", 0, <<>>, FALSE, <<>>, <<>>)

\* the entry logError builds
Entry(error, id, time) ==
  [id |-> id, timestamp |-> time,
   severity |-> IF error.severity = "" THEN "error" ELSE error.severity,
   source |-> IF error.source = "" THEN "unknown" ELSE error.source,
   message |-> error.message,
   fingerprint |-> generateFingerprint(error),
   acknowledged |-> FALSE, acknowledgedAt |-> Absent]

Untrimmed(log) == log

\* saveErrors: errors.slice(-1000)
Trimmed(log) ==
  IF Len(log) <= KeepLast THEN log ELSE SubSeq(log, Len(log) - KeepLast + 1, Len(log))

WholeLog(log, time, cfg) == log

\* errors.filter(e => new Date(e.timestamp) >= windowStart &&
\*                    config.severityFilter.includes(e.severity))
RecentErrors(log, time, cfg) ==
  SelectSeq(log, LAMBDA e : /\ e.timestamp >= time - cfg.windowMinutes
                            /\ e.severity \in cfg.severityFilter)

SilenceNotOver(lastAlert, time, cfg) == time - lastAlert >= cfg.silenceMinutes

\* (now - new Date(lastAlert)) > config.silenceMinutes * 60 * 1000
SilenceOver(lastAlert, time, cfg) == time - lastAlert > cfg.silenceMinutes

\* the two ifs of checkAlertThreshold
ShouldAlert(recent, fp, record, time, cfg) ==
  /\ Len(recent) >= cfg.alertThreshold
  /\ \/ fp \notin DOMAIN record
     \/ SilenceOver(record[fp], time, cfg)

\* triggerAlert groups its errors by fingerprint and reports each group
ReportedFingerprints(recent) == {recent[i].fingerprint : i \in 1..Len(recent)}

\* recordAlert(fp) for every reported fingerprint
RecordAlerts(record, fps, time) ==
  [f \in DOMAIN record \cup fps |-> IF f \in fps THEN time ELSE record[f]]

-----------------------------------------------------------------------------
(* Per-target state: the objects held by repoState *)

Undefined == -1      \* a field that was never set (failedBuilds)

NoPR == 0            \* pendingDepsPR never set (falsy)

\* `repoState.get(repoFullName) || {}` on a target never stored
EmptyState == [present |-> FALSE, failedBuilds |-> Undefined,
               pendingDepsPR |-> NoPR, releaseNotified |-> FALSE]

\* A runCheck invocation that is not in flight
IdleProc == [pc |-> "idle", idx |-> 0, prev |-> EmptyState, alias |-> FALSE,
             obs |-> Undefined, handled |-> FALSE, left |-> 0, sent |-> 0,
             delivered |-> FALSE, updates |-> {}, prOpened |-> FALSE, prThrew |-> FALSE,
             relFired |-> FALSE, result |-> "none", shadowPrev |-> EmptyState,
             needed |-> FALSE, depsSent |-> 0, relSent |-> 0]

\* Live fetches: each call returns whatever GitHub holds at that moment
Live == [fixed |-> FALSE, failedBuilds |-> 0, details |-> 0, updates |-> {}, needed |-> FALSE]

\* status.failedBuilds = failedRuns.length, as getRepoStatus may return it
StatusResults == IF snapshot.fixed THEN {snapshot.failedBuilds} ELSE 0..MaxFailed

\* the number of failures getFailedBuildDetails may return
DetailResults == IF snapshot.fixed THEN {snapshot.details} ELSE 0..MaxDetails

\* the update types scanDependencies may find
ScanResults == IF snapshot.fixed THEN {snapshot.updates} ELSE SUBSET UpdateTypes

\* releaseCheck.needed, as isReleaseNeeded may return it
ReleaseResults == IF snapshot.fixed THEN {snapshot.needed} ELSE BOOLEAN

Target(pr) == targets[pr.idx]

InFlight == {p \in DOMAIN procs : procs[p].pc # "idle"}

GuardOff == FALSE

\* if (isRunning) { ...skipping...; return; }
RunCheckGuard == isRunning

AnyBuildFailure(observed, prev) == observed > 0

\* status.failedBuilds > 0 && status.failedBuilds !== prevState.failedBuilds
IsNewBuildFailure(observed, prev) ==
  observed > 0 /\ observed # prev.failedBuilds

\* deps.autoUpdates = updates.filter(u => u.shouldAutoUpdate), with
\* shouldAutoUpdate = config.deps.autoUpdate[updateType] || false
ScanAutoUpdates(updates) == {u \in updates : AutoUpdate[u]}

\* autoUpdates.filter(u => (minor && cfg.minor) || (patch && cfg.patch))
FilterAutoUpdates(autoUpdates) ==
  {u \in autoUpdates : \/ (u = "minor" /\ AutoUpdate.minor)
                       \/ (u = "patch" /\ AutoUpdate.patch)}

AllUpdates(updates) == updates

\* the updates handed to createDependencyUpdatePR: deps.autoUpdates, filtered
PRUpdates(updates) == FilterAutoUpdates(ScanAutoUpdates(updates))

\* autoUpdates.length > 0 && !prevState.pendingDepsPR, inside the two outer ifs
ShouldCreatePR(updates, prev) ==
  LET auto == ScanAutoUpdates(updates) IN
  /\ auto # {}
  /\ (AutoUpdate.minor \/ AutoUpdate.patch)
  /\ FilterAutoUpdates(auto) # {}
  /\ prev.pendingDepsPR = NoPR

\* isReleaseNeeded answers `needed: false` only when the latest release has no
\* feature/fix commit after it: after a notice, that answer means a release was
\* published since; a new notice starts the wait for the next release
ReleasedAfter(was, needed, fire, prev) ==
  IF fire THEN FALSE
  ELSE IF ~needed /\ prev.releaseNotified THEN TRUE
  ELSE was

AnyReleaseNeed(needed, prev) == needed

\* releaseCheck.needed && !prevState.releaseNotified
IsNewReleaseNeed(needed, prev) == needed /\ ~prev.releaseNotified

\* notifyBuildFailure: the three channels' results are awaited and dropped;
\* the value is whether any channel delivered
NotifyBuildFailure(slack, discord, email) ==
  NotifyOnBuildFailure /\ (slack \/ discord \/ email)

\* the first lines of checkRepo, up to `await getRepoStatus`
StartCheckRepo(i) ==
  LET t == targets[i] IN
  [IdleProc EXCEPT !.pc = "status", !.idx = i,
                   !.prev = repoState[t], !.alias = repoState[t].present,
                   !.shadowPrev = shadow[t]]

Escaped(pr) == IdleProc

Aborted(pr) == [pr EXCEPT !.pc = "returned", !.result = "failed", !.idx = Len(targets)]

\* catch (error) { return { success: false, ... } }
Failed(pr) == [pr EXCEPT !.pc = "returned", !.result = "failed"]

AlwaysScan(pr) == [pr EXCEPT !.pc = "scan"]

\* if (checkCount % 4 === 0) scanDependencies ... else isReleaseNeeded
AfterBuilds(pr) ==
  IF checkCount % DepsEvery = 0 THEN [pr EXCEPT !.pc = "scan"]
                                ELSE [pr EXCEPT !.pc = "release"]

\* repoState.set(repoFullName, { ...prevState, failedBuilds, lastCheck })
Stored(prev, observed) ==
  [prev EXCEPT !.present = TRUE, !.failedBuilds = observed]

-----------------------------------------------------------------------------
(* runCheck and checkRepo *)

\* The module-level state of the daemon as the process starts, watching `ts`
Started(ts) ==
  /\ isRunning = FALSE
  /\ checkCount = 0
  /\ lastCheck = 0
  /\ repoState = [t \in Repos |-> EmptyState]
  /\ targets = ts
  /\ procs = [p \in 1..MaxInvocations |-> IdleProc]
  /\ prCount = [t \in Repos |-> 0]
  /\ tick = [bit |-> 0, skipped |-> FALSE]
  /\ shadow = [t \in Repos |-> EmptyState]
  /\ seen = [t \in Repos |-> Undefined]
  /\ started = 0
  /\ released = [t \in Repos |-> FALSE]
  /\ visits = [t \in Repos |-> 0]

\* No data/errors.json and no data/error-alerts.json yet; error-config.json is `cfg`
NoFiles(cfg) ==
  /\ errors = <<>>
  /\ alerts = NoAlerts
  /\ errConfig = cfg
  /\ now = 0
  /\ logged = 0
  /\ lastLog = NoLog
  /\ reply = NoReply
  /\ firings = <<>>
  /\ advances = 0
  /\ writers = [w \in Writers |-> IdleWriter]

\* the fetches are live, or replay the snapshot `s`
World(s) == snapshot = s

Init == Started(<<"r1">>) /\ NoFiles(DefaultConfig) /\ World(Live)

\* runCheck is entered: by the initial call, or by a cron tick
Tick ==
  /\ IF RunCheckGuard
       THEN /\ tick' = [bit |-> 1 - tick.bit, skipped |-> TRUE]
            /\ UNCHANGED <<isRunning, checkCount, lastCheck, repoState, procs, started, visits>>
       ELSE /\ started + Len(targets) <= MaxChecks
            /\ started' = started + Len(targets)
            /\ \E p \in DOMAIN procs :
                 /\ procs[p].pc = "idle"
                 /\ \A q \in DOMAIN procs : procs[q].pc = "idle" => p <= q
                 /\ procs' = [procs EXCEPT ![p] = StartCheckRepo(1)]
            /\ tick' = [bit |-> 1 - tick.bit, skipped |-> FALSE]
            /\ isRunning' = TRUE
            /\ checkCount' = checkCount + 1
            /\ visits' = [t \in Repos |-> IF t = targets[1] THEN 1 ELSE 0]
            /\ UNCHANGED <<lastCheck, repoState>>
  /\ UNCHANGED <<targets, prCount, shadow, seen, snapshot, released>>
  /\ UNCHANGED monitorVars

\* await getRepoStatus(owner, repo) returns or throws
StatusReturns(p) ==
  /\ procs[p].pc = "status"
  /\ \/ procs' = [procs EXCEPT ![p] = Failed(@)]
     \/ \E n \in StatusResults :
          LET pr == [procs[p] EXCEPT !.obs = n] IN
          procs' = [procs EXCEPT ![p] =
                      IF IsNewBuildFailure(n, pr.prev)
                        THEN [pr EXCEPT !.pc = "details", !.handled = TRUE]
                        ELSE AfterBuilds(pr)]
  /\ UNCHANGED <<isRunning, checkCount, lastCheck, repoState, targets, prCount, tick, shadow, seen, started, snapshot, released, visits>>
  /\ UNCHANGED monitorVars

\* await getFailedBuildDetails(owner, repo) returns or throws
DetailsReturns(p) ==
  /\ procs[p].pc = "details"
  /\ \/ procs' = [procs EXCEPT ![p] = Failed(@)]
     \/ \E k \in DetailResults :
          LET m == IF k < DetailSlice THEN k ELSE DetailSlice IN
          procs' = [procs EXCEPT ![p] =
                      IF m > 0 THEN [@ EXCEPT !.pc = "notifyBuild", !.left = m]
                               ELSE AfterBuilds(@)]
  /\ UNCHANGED <<isRunning, checkCount, lastCheck, repoState, targets, prCount, tick, shadow, seen, started, snapshot, released, visits>>
  /\ UNCHANGED monitorVars

\* await notifyBuildFailure(repoFullName, failure) returns (it never throws)
NotifyBuildReturns(p) ==
  /\ procs[p].pc = "notifyBuild"
  /\ \E slack, discord, email \in BOOLEAN :
       LET pr == [procs[p] EXCEPT
                    !.sent = @ + 1, !.left = @ - 1,
                    !.delivered = @ \/ NotifyBuildFailure(slack, discord, email)] IN
       procs' = [procs EXCEPT ![p] = IF pr.left > 0 THEN pr ELSE AfterBuilds(pr)]
  /\ UNCHANGED <<isRunning, checkCount, lastCheck, repoState, targets, prCount, tick, shadow, seen, started, snapshot, released, visits>>
  /\ UNCHANGED monitorVars

\* await scanDependencies(owner, repo) returns or throws
ScanReturns(p) ==
  /\ procs[p].pc = "scan"
  /\ \/ procs' = [procs EXCEPT ![p] = Failed(@)]
     \/ \E updates \in ScanResults :
          procs' = [procs EXCEPT ![p] =
                      IF ShouldCreatePR(updates, @.prev)
                        THEN [@ EXCEPT !.pc = "createPR",
                                       !.updates = PRUpdates(updates)]
                        ELSE [@ EXCEPT !.pc = "release"]]
  /\ UNCHANGED <<isRunning, checkCount, lastCheck, repoState, targets, prCount, tick, shadow, seen, started, snapshot, released, visits>>
  /\ UNCHANGED monitorVars

\* await createDependencyUpdatePR(...) returns a PR, or throws into the inner catch
CreatePRReturns(p) ==
  /\ procs[p].pc = "createPR"
  /\ \/ /\ procs' = [procs EXCEPT ![p] = [@ EXCEPT !.pc = "release", !.prThrew = TRUE]]
        /\ UNCHANGED prCount
     \/ /\ prCount' = [prCount EXCEPT ![Target(procs[p])] = @ + 1]
        /\ procs' = [procs EXCEPT ![p] = [@ EXCEPT !.pc = "notifyDeps", !.prOpened = TRUE]]
  /\ UNCHANGED <<isRunning, checkCount, lastCheck, repoState, targets, tick, shadow, seen, started, snapshot, released, visits>>
  /\ UNCHANGED monitorVars

\* await notifyDependencyUpdate(...) returns; prevState.pendingDepsPR = pr.number
NotifyDepsReturns(p) ==
  LET t == Target(procs[p])
      n == prCount[t] IN
  /\ procs[p].pc = "notifyDeps"
  /\ procs' = [procs EXCEPT ![p] = [@ EXCEPT !.pc = "release", !.prev.pendingDepsPR = n,
                                             !.depsSent = @ + 1]]
  /\ IF procs[p].alias
       THEN /\ repoState' = [repoState EXCEPT ![t].pendingDepsPR = n]
            /\ shadow' = [shadow EXCEPT ![t].pendingDepsPR = n]
       ELSE UNCHANGED <<repoState, shadow>>
  /\ UNCHANGED <<isRunning, checkCount, lastCheck, targets, prCount, tick, seen, started, snapshot, released, visits>>
  /\ UNCHANGED monitorVars

\* await isReleaseNeeded(owner, repo) returns or throws; then the state update
ReleaseReturns(p) ==
  LET t == Target(procs[p]) IN
  /\ procs[p].pc = "release"
  /\ \/ /\ procs' = [procs EXCEPT ![p] = Failed(@)]
        /\ UNCHANGED <<repoState, shadow, released>>
     \/ \E needed \in ReleaseResults :
          LET fire == IsNewReleaseNeed(needed, procs[p].prev)
              prev == [procs[p].prev EXCEPT !.releaseNotified = @ \/ fire] IN
          /\ procs' = [procs EXCEPT ![p] =
                         [@ EXCEPT !.pc = "returned", !.result = "ok",
                                   !.prev = prev, !.relFired = fire, !.needed = needed]]
          /\ released' = [released EXCEPT ![t] = ReleasedAfter(@, needed, fire, procs[p].prev)]
          /\ repoState' = [repoState EXCEPT ![t] = Stored(prev, procs[p].obs)]
          /\ shadow' = [shadow EXCEPT ![t] = Stored(prev, procs[p].obs)]
  /\ UNCHANGED <<isRunning, checkCount, lastCheck, targets, prCount, tick, seen, started, snapshot, visits>>
  /\ UNCHANGED monitorVars

\* runCheck resumes after `await checkRepo(repo)`: the next target, or the end
Resume(p) ==
  /\ procs[p].pc = "returned"
  /\ IF procs[p].idx < Len(targets)
       THEN /\ procs' = [procs EXCEPT ![p] = StartCheckRepo(procs[p].idx + 1)]
            /\ visits' = [visits EXCEPT ![targets[procs[p].idx + 1]] = @ + 1]
            /\ UNCHANGED <<isRunning, lastCheck>>
       ELSE /\ procs' = [procs EXCEPT ![p] = IdleProc]
            /\ lastCheck' = checkCount
            /\ isRunning' = FALSE
            /\ UNCHANGED visits
  /\ seen' = [seen EXCEPT ![Target(procs[p])] = procs[p].obs]
  /\ UNCHANGED <<checkCount, repoState, targets, prCount, tick, shadow, started, snapshot, released>>
  /\ UNCHANGED monitorVars

-----------------------------------------------------------------------------
(* The error monitor's operations *)

\* logError(error): append, save, checkAlertThreshold
LogError(error) ==
  LET entry == Entry(error, logged + 1, now)
      saved == Trimmed(Append(errors, entry))
      recent == RecentErrors(saved, now, errConfig)
      fire == ShouldAlert(recent, entry.fingerprint, alerts, now, errConfig)
      fps == ReportedFingerprints(recent)
  IN
  /\ logged' = logged + 1
  /\ errors' = saved
  /\ alerts' = IF fire THEN RecordAlerts(alerts, fps, now) ELSE alerts
  /\ lastLog' = [fired |-> fire, at |-> now, fp |-> entry.fingerprint,
                 reported |-> IF fire THEN fps ELSE {}, before |-> alerts,
                 count |-> Len(recent)]
  /\ firings' = IF fire THEN Append(firings, [at |-> now, call |-> logged + 1]) ELSE firings
  /\ reply' = Reply("logError", now, error, TRUE, entry, <<>>)
  /\ UNCHANGED <<errConfig, now, advances, writers>>
  /\ UNCHANGED daemonVars

\* time passes
Advance ==
  /\ now < MaxTime
  /\ now' = now + 1
  /\ UNCHANGED <<errors, alerts, errConfig, logged, lastLog, firings, advances, writers, reply>>
  /\ UNCHANGED daemonVars

NextMonitor ==
  \/ \E error \in Inputs : logged < MaxEvents /\ LogError(error)
  \/ Advance

InitMonitor == Started(<<"r1">>) /\ NoFiles(QuickConfig) /\ World(Live)

SpecMonitor == InitMonitor /\ [][NextMonitor]_vars

-----------------------------------------------------------------------------
(* logError called by several processes on one data directory: inside one   *)
(* process the call is synchronous, but between its file reads and writes   *)
(* another process may read and write the same files.                       *)

\* const errors = loadErrors(); const entry = {...}; errors.push(entry)
LoadErrors(w, error) ==
  /\ writers[w].pc = "idle"
  /\ logged < MaxEvents
  /\ logged' = logged + 1
  /\ writers' = [writers EXCEPT ![w] = [pc |-> "loaded", local |-> errors,
                                         entry |-> Entry(error, logged + 1, now)]]
  /\ UNCHANGED <<errors, alerts, errConfig, now, lastLog, firings, advances, reply>>
  /\ UNCHANGED daemonVars

\* saveErrors(errors): the file is replaced by the process's copy
SaveErrors(w) ==
  /\ writers[w].pc = "loaded"
  /\ errors' = Trimmed(Append(writers[w].local, writers[w].entry))
  /\ writers' = [writers EXCEPT ![w].pc = "saved"]
  /\ UNCHANGED <<alerts, errConfig, now, logged, lastLog, firings, advances, reply>>
  /\ UNCHANGED daemonVars

\* checkAlertThreshold(entry): reads the files again, may alert and record
CheckAlertThreshold(w) ==
  LET entry == writers[w].entry
      recent == RecentErrors(errors, now, errConfig)
      fire == ShouldAlert(recent, entry.fingerprint, alerts, now, errConfig)
      fps == ReportedFingerprints(recent)
  IN
  /\ writers[w].pc = "saved"
  /\ alerts' = IF fire THEN RecordAlerts(alerts, fps, now) ELSE alerts
  /\ lastLog' = [fired |-> fire, at |-> now, fp |-> entry.fingerprint,
                 reported |-> IF fire THEN fps ELSE {}, before |-> alerts,
                 count |-> Len(recent)]
  /\ firings' = IF fire THEN Append(firings, [at |-> now, call |-> entry.id]) ELSE firings
  /\ reply' = Reply("logError", now, entry.id, TRUE, entry, <<>>)
  /\ writers' = [writers EXCEPT ![w] = IdleWriter]
  /\ UNCHANGED <<errors, errConfig, now, logged, advances>>
  /\ UNCHANGED daemonVars

NextWriters ==
  \E w \in Writers :
    \/ \E error \in Inputs : LoadErrors(w, error)
    \/ SaveErrors(w)
    \/ CheckAlertThreshold(w)

SpecWriters == InitMonitor /\ [][NextWriters]_vars

-----------------------------------------------------------------------------
(* A log about to overflow: one event short of its capacity, all of them    *)
(* recorded in the same minute by calls of logError with the same error.    *)

Unacknowledged(error, time) == error

\* error.acknowledged = true; error.acknowledgedAt = new Date().toISOString()
Acknowledged(error, time) ==
  [error EXCEPT !.acknowledged = TRUE, !.acknowledgedAt = time]

\* acknowledgeError(errorId): mark the event, save the log
AcknowledgeError(errorId) ==
  LET hits == {i \in 1..Len(errors) : errors[i].id = errorId} IN
  /\ IF hits # {}
       THEN LET first == CHOOSE i \in hits : \A j \in hits : i <= j
                error == Acknowledged(errors[first], now) IN
            /\ errors' = Trimmed([errors EXCEPT ![first] = error])
            /\ reply' = Reply("acknowledgeError", now, errorId, TRUE, error, errors)
       ELSE /\ UNCHANGED errors
            /\ reply' = Reply("acknowledgeError", now, errorId, FALSE, <<>>, <<>>)
  /\ UNCHANGED <<alerts, errConfig, now, logged, lastLog, firings, advances, writers>>
  /\ UNCHANGED daemonVars

\* the ids callers ask to acknowledge: a dropped one, and the ones around the overflow
AckIds == {1, KeepLast, KeepLast + 1}

NextRetention ==
  \/ \E error \in Inputs : logged < KeepLast + MaxOverflow /\ LogError(error)
  \/ \E errorId \in AckIds : AcknowledgeError(errorId)

\* after KeepLast - 1 calls logError(SameError) in minute 0: the 10th call
\* alerted, the later ones fell into its silence period
NearlyFull ==
  /\ errors = [i \in 1..(KeepLast - 1) |-> Entry(SameError, i, 0)]
  /\ alerts = [f \in {generateFingerprint(SameError)} |-> 0]
  /\ errConfig = DefaultConfig
  /\ now = 0
  /\ logged = KeepLast - 1
  /\ lastLog = [fired |-> FALSE, at |-> 0, fp |-> generateFingerprint(SameError),
                reported |-> {}, before |-> [f \in {generateFingerprint(SameError)} |-> 0],
                count |-> KeepLast - 1]
  /\ reply = Reply("logError", 0, SameError, TRUE, Entry(SameError, KeepLast - 1, 0), <<>>)
  /\ firings = <<[at |-> 0, call |-> DefaultConfig.alertThreshold]>>
  /\ advances = 0
  /\ writers = [w \in Writers |-> IdleWriter]

InitRetention == Started(<<"r1">>) /\ NearlyFull /\ World(Live)

SpecRetention == InitRetention /\ [][NextRetention]_vars

-----------------------------------------------------------------------------
(* The monitor's queries: getErrorSummary and getUnacknowledgedErrors        *)

MinutesPerHour == 60 \* hours * 60 * 60 * 1000 ms, on a clock that counts minutes

TopLimit == 5        \* .slice(0, 5)

Max(a, b) == IF a > b THEN a ELSE b

\* s.slice(start)
Slice(s, start) ==
  LET from == IF start < 0 THEN Max(Len(s) + start, 0) ELSE Min(start, Len(s))
  IN SubSeq(s, from + 1, Len(s))

EveryEvent(log, time, options) == log

\* errors.filter(e => new Date(e.timestamp) >= cutoff), then the optional
\* severity and source filters ("" is an option left out)
Filtered(log, time, options) ==
  LET cutoff == time - options.hours * MinutesPerHour IN
  SelectSeq(log, LAMBDA e : /\ e.timestamp >= cutoff
                            /\ (options.severity # "" => e.severity = options.severity)
                            /\ (options.source # "" => e.source = options.source))

\* counts[key] = (counts[key] || 0) + 1 over the keys in order: an object,
\* whose entries come in the order in which the keys were first set
RECURSIVE CountBy(_)
CountBy(keys) ==
  IF Len(keys) = 0 THEN <<>>
  ELSE LET counts == CountBy(SubSeq(keys, 1, Len(keys) - 1))
           key == keys[Len(keys)]
           hit == {i \in 1..Len(counts) : counts[i].key = key}
       IN IF hit = {} THEN Append(counts, [key |-> key, count |-> 1])
          ELSE [i \in 1..Len(counts) |->
                  IF i \in hit THEN [counts[i] EXCEPT !.count = @ + 1] ELSE counts[i]]

\* entries.sort((a, b) => b[1] - a[1]): by count, descending, equal counts
\* keeping their order
RECURSIVE SortByCount(_)
SortByCount(entries) ==
  IF Len(entries) <= 1 THEN entries
  ELSE LET sorted == SortByCount(SubSeq(entries, 1, Len(entries) - 1))
           last == entries[Len(entries)]
           ahead == Cardinality({i \in 1..Len(sorted) : sorted[i].count >= last.count})
       IN SubSeq(sorted, 1, ahead) \o <<last>> \o SubSeq(sorted, ahead + 1, Len(sorted))

\* filtered.find(e => e.fingerprint === fp)
Sample(filtered, fp) ==
  filtered[CHOOSE i \in 1..Len(filtered) :
             /\ filtered[i].fingerprint = fp
             /\ \A j \in 1..(i - 1) : filtered[j].fingerprint # fp]

getErrorSummary(log, time, options) ==
  LET filtered == Filtered(log, time, options)
      byFingerprint == CountBy([i \in 1..Len(filtered) |-> filtered[i].fingerprint])
      top == Substring(SortByCount(byFingerprint), TopLimit)
  IN [totalErrors |-> Len(filtered),
      bySeverity |-> CountBy([i \in 1..Len(filtered) |-> filtered[i].severity]),
      bySource |-> CountBy([i \in 1..Len(filtered) |-> filtered[i].source]),
      topErrors |-> [i \in 1..Len(top) |->
                       [fingerprint |-> top[i].key, count |-> top[i].count,
                        sample |-> Sample(filtered, top[i].key)]]]

getUnacknowledgedErrors(log, options) ==
  LET unacknowledged == SelectSeq(log, LAMBDA e : ~e.acknowledged)
      wanted == IF options.severity # ""
                  THEN SelectSeq(unacknowledged, LAMBDA e : e.severity = options.severity)
                  ELSE unacknowledged
  IN Slice(wanted, 0 - options.limit)

\* the errors callers log: two of them differ only in naming the source
\* 'unknown' or leaving it out
ApiInputs ==
  { [source |-> "db", message |-> "x", severity |-> "error"],
    [source |-> "db", message |-> "y", severity |-> "critical"],
    [source |-> "x", message |-> "y", severity |-> "error"],
    [source |-> "", message |-> "x", severity |-> "warning"],
    [source |-> "unknown", message |-> "x", severity |-> "warning"] }

SummaryOptions == [hours : {0, 1, 24}, severity : {"", "error"}, source : {"", "db"}]

UnacknowledgedOptions == [severity : {"", "error"}, limit : 0..MaxLimit]

ApiIds == 1..(MaxApiEvents + 1)

ClockJumps == {1, MinutesPerHour}

GetErrorSummary(options) ==
  /\ reply' = Reply("getErrorSummary", now, options, TRUE,
                    getErrorSummary(errors, now, options), <<>>)
  /\ UNCHANGED <<errors, alerts, errConfig, now, logged, lastLog, firings, advances, writers>>
  /\ UNCHANGED daemonVars

GetUnacknowledgedErrors(options) ==
  /\ reply' = Reply("getUnacknowledgedErrors", now, options, TRUE,
                    getUnacknowledgedErrors(errors, options), <<>>)
  /\ UNCHANGED <<errors, alerts, errConfig, now, logged, lastLog, firings, advances, writers>>
  /\ UNCHANGED daemonVars

\* time passes between two calls
Later(d) ==
  /\ advances < MaxWaits
  /\ now' = now + d
  /\ advances' = advances + 1
  /\ UNCHANGED <<errors, alerts, errConfig, logged, lastLog, firings, writers, reply>>
  /\ UNCHANGED daemonVars

NextApi ==
  \/ \E error \in ApiInputs : logged < MaxApiEvents /\ LogError(error)
  \/ \E d \in ClockJumps : Later(d)
  \/ \E errorId \in ApiIds : AcknowledgeError(errorId)
  \/ \E options \in SummaryOptions : GetErrorSummary(options)
  \/ \E options \in UnacknowledgedOptions : GetUnacknowledgedErrors(options)

InitApi == Started(<<"r1">>) /\ NoFiles(DefaultConfig) /\ World(Live)

SpecApi == InitApi /\ [][NextApi]_vars

-----------------------------------------------------------------------------
(* A scripted use of the monitor under the default configuration: a burst   *)
(* of events of one fingerprint inside one window, some more in the minutes *)
(* after the alert, and further ones after a pause.                         *)

Scenario == [burst |-> 10, more |-> 5, within |-> 10, after |-> 16]

ClockSteps == {1, 15, 16, 45}

\* when the last event of the burst was recorded
BurstEnd == errors[Scenario.burst].timestamp

LogSame ==
  /\ logged < Scenario.burst + Scenario.more + MaxFurther
  /\ (logged >= Scenario.burst /\ logged < Scenario.burst + Scenario.more)
       => now - BurstEnd <= Scenario.within
  /\ logged >= Scenario.burst + Scenario.more
       => now - BurstEnd >= Scenario.after
  /\ LogError(SameError)

Wait(d) ==
  /\ advances < MaxAdvances
  /\ logged >= 1
  /\ logged < Scenario.burst
       => now + d - errors[1].timestamp <= errConfig.windowMinutes
  /\ (logged >= Scenario.burst /\ logged < Scenario.burst + Scenario.more)
       => now + d - BurstEnd <= Scenario.within
  /\ now' = now + d
  /\ advances' = advances + 1
  /\ UNCHANGED <<errors, alerts, errConfig, logged, lastLog, firings, writers, reply>>
  /\ UNCHANGED daemonVars

NextScenario ==
  \/ LogSame
  \/ \E d \in ClockSteps : Wait(d)

InitScenario == Started(<<"r1">>) /\ NoFiles(DefaultConfig) /\ World(Live)

SpecScenario == InitScenario /\ [][NextScenario]_vars

Next ==
  \/ Tick
  \/ \E p \in DOMAIN procs :
       \/ StatusReturns(p)
       \/ DetailsReturns(p)
       \/ NotifyBuildReturns(p)
       \/ ScanReturns(p)
       \/ CreatePRReturns(p)
       \/ NotifyDepsReturns(p)
       \/ ReleaseReturns(p)
       \/ Resume(p)

Spec == Init /\ [][Next]_vars

-----------------------------------------------------------------------------
(* Two configured targets *)

\* The daemon after its first `n` cycles, in each of which GitHub was out of
\* reach and every check failed at its first fetch: nothing stored, no cycle
\* running
AfterOutage(ts, n) ==
  /\ isRunning = FALSE
  /\ checkCount = n
  /\ lastCheck = n
  /\ repoState = [t \in Repos |-> EmptyState]
  /\ targets = ts
  /\ procs = [p \in 1..MaxInvocations |-> IdleProc]
  /\ prCount = [t \in Repos |-> 0]
  /\ tick = [bit |-> n % 2, skipped |-> FALSE]
  /\ shadow = [t \in Repos |-> EmptyState]
  /\ seen = [t \in Repos |-> Undefined]
  /\ started = n * Len(ts)
  /\ released = [t \in Repos |-> FALSE]
  /\ visits = [t \in Repos |-> IF \E i \in 1..Len(ts) : ts[i] = t THEN 1 ELSE 0]

\* the next cycle is the first one that scans dependencies
InitPair == AfterOutage(<<"r1", "r2">>, DepsEvery - 1) /\ NoFiles(DefaultConfig) /\ World(Live)

SpecPair == InitPair /\ [][Next]_vars

-----------------------------------------------------------------------------
(* A call that never returns: checkRepo awaits its fetches and dispatches    *)
(* with no timeout, so an invocation whose awaited promise never settles     *)
(* stays at that await.                                                      *)

Awaiting == {"status", "details", "notifyBuild", "scan", "createPR", "notifyDeps", "release"}

Hangs(p) ==
  /\ procs[p].pc \in Awaiting
  /\ procs' = [procs EXCEPT ![p] = [@ EXCEPT !.pc = "hung"]]
  /\ UNCHANGED <<isRunning, checkCount, lastCheck, repoState, targets, prCount, tick, shadow, seen, started, snapshot, released, visits>>
  /\ UNCHANGED monitorVars

NextHang == Next \/ \E p \in DOMAIN procs : Hangs(p)

\* cron keeps ticking, every other awaited call settles, and runCheck's
\* synchronous continuations run
Progress ==
  /\ WF_vars(Tick)
  /\ \A p \in 1..MaxInvocations :
       /\ WF_vars(StatusReturns(p))
       /\ WF_vars(DetailsReturns(p))
       /\ WF_vars(NotifyBuildReturns(p))
       /\ WF_vars(ScanReturns(p))
       /\ WF_vars(CreatePRReturns(p))
       /\ WF_vars(NotifyDepsReturns(p))
       /\ WF_vars(ReleaseReturns(p))
       /\ WF_vars(Resume(p))

SpecHang == Init /\ [][NextHang]_vars /\ Progress

-----------------------------------------------------------------------------
(* Replay: GitHub holds the same thing at every fetch of every cycle, and    *)
(* every fetch answers.                                                      *)

Snapshots ==
  [fixed : {TRUE}, failedBuilds : 0..MaxFailed, details : 0..MaxDetails,
   updates : SUBSET UpdateTypes, needed : BOOLEAN]

InitReplay ==
  /\ Started(<<"r1">>)
  /\ NoFiles(DefaultConfig)
  /\ \E s \in Snapshots : World(s)

\* no fetch throws: no check ends in checkRepo's catch
NextReplay == Next /\ \A p \in DOMAIN procs : procs'[p].result # "failed"

SpecReplay == InitReplay /\ [][NextReplay]_vars

-----------------------------------------------------------------------------
(* Process restart: everything the daemon keeps lives in process memory     *)
(* (part_001 lines 46-50) and starts again from its initial value; GitHub's *)
(* PRs and the files under data/ stay.                                      *)

Restart ==
  /\ checkCount > 0
  /\ isRunning' = FALSE
  /\ checkCount' = 0
  /\ lastCheck' = 0
  /\ repoState' = [t \in Repos |-> EmptyState]
  /\ procs' = [p \in DOMAIN procs |-> IdleProc]
  /\ seen' = [t \in Repos |-> Undefined]
  /\ tick' = [bit |-> 0, skipped |-> FALSE]
  /\ visits' = [t \in Repos |-> 0]
  /\ UNCHANGED <<targets, prCount, shadow, started, snapshot, released>>
  /\ UNCHANGED monitorVars

NextRestart == Next \/ Restart

SpecRestart == Init /\ [][NextRestart]_vars

-----------------------------------------------------------------------------
(* Claims about the daemon *)

Returned(p) == procs[p].pc = "returned"

Completed(p) == Returned(p) /\ procs[p].result = "ok"

\* C2: when a target's observed failed-build count is the same nonzero value
\* as in its previous cycle, the cycle dispatches no build-failure notification.
C2_NoDuplicateBuildAlert ==
  \A p \in DOMAIN procs :
    procs[p].pc = "notifyBuild" =>
      ~(procs[p].obs > 0 /\ procs[p].obs = seen[Target(procs[p])])

\* C3: once a dependency-update PR has been opened for a target, no further
\* one is opened for it (nothing in the daemon clears pendingDepsPR).
C3_OnePendingPR == \A t \in Repos : prCount[t] <= 1

\* C4: when the side effect of a newly detected condition fails (no channel
\* delivers the build-failure notification; PR creation throws), the stored
\* value for that condition is not advanced.
C4_FailedEffectKeepsState ==
  \A p \in DOMAIN procs :
    Completed(p) =>
      LET t == Target(procs[p]) IN
      /\ (procs[p].handled /\ procs[p].sent > 0 /\ ~procs[p].delivered)
           => repoState[t].failedBuilds = procs[p].shadowPrev.failedBuilds
      /\ procs[p].prThrew
           => repoState[t].pendingDepsPR = procs[p].shadowPrev.pendingDepsPR

\* C5: at most one check cycle is in flight, and a tick that arrives while a
\* cycle is running is skipped: it checks no target, dispatches nothing and
\* leaves checkCount, lastCheck and repoState as they were.
C5_NoOverlap ==
  /\ [](Cardinality(InFlight) <= 1)
  /\ [][(isRunning /\ tick' # tick) =>
          /\ tick'.skipped
          /\ UNCHANGED <<isRunning, checkCount, lastCheck, repoState, procs, prCount>>]_vars

C5_Witness == isRunning /\ tick.skipped /\ InFlight # {}

\* C6: after a restart the daemon acts on nothing an uninterrupted process
\* would not act on: build handling, a dependency PR and a release notice
\* happen only when the state an uninterrupted process holds calls for them.
C6_RestartTransparent ==
  \A p \in DOMAIN procs :
    Returned(p) =>
      LET was == procs[p].shadowPrev IN
      /\ procs[p].handled => procs[p].obs # was.failedBuilds
      /\ procs[p].prOpened => was.pendingDepsPR = NoPR
      /\ procs[p].relFired => ~was.releaseNotified

\* C10: in a completed check, build-failure handling ran iff the observed
\* count is > 0 and differs from the stored failedBuilds (absent counts as
\* different); afterwards the stored failedBuilds is the observed count.
C10_BuildHandlingIff ==
  \A p \in DOMAIN procs :
    Completed(p) =>
      LET t == Target(procs[p])
          was == procs[p].shadowPrev IN
      /\ procs[p].handled <=>
           (procs[p].obs > 0 /\ (~was.present \/ procs[p].obs # was.failedBuilds))
      /\ repoState[t].present
      /\ repoState[t].failedBuilds = procs[p].obs

C10_Witness ==
  \E p \in DOMAIN procs :
    /\ Completed(p)
    /\ procs[p].handled
    /\ procs[p].shadowPrev.present
    /\ procs[p].shadowPrev.failedBuilds > 0

-----------------------------------------------------------------------------
(* Claims about the error monitor *)

\* The stored events that lay in the window of the latest logError call
\* (the log is not trimmed and the clock is not read: a tally by hand)
InWindowAt(time) ==
  {i \in 1..Len(errors) : /\ errors[i].timestamp >= time - errConfig.windowMinutes
                          /\ errors[i].timestamp <= time}

Counted(time) == {i \in InWindowAt(time) : errors[i].severity \in errConfig.severityFilter}

WithFingerprint(idx, fp) == {i \in idx : errors[i].fingerprint = fp}

\* C1: an alert that reports fingerprint F comes more than silenceMinutes
\* after the previous alert that reported F.
C1_SilencePerFingerprint ==
  lastLog.fired =>
    \A f \in lastLog.reported :
      f \in DOMAIN lastLog.before =>
        lastLog.at - lastLog.before[f] > errConfig.silenceMinutes

\* C7 as stated: recording an event with fingerprint F fires only if at least
\* alertThreshold in-window events have fingerprint F, and F's silence is over.
C7_CountPerFingerprint ==
  lastLog.fired =>
    /\ Cardinality(WithFingerprint(InWindowAt(lastLog.at), lastLog.fp))
         >= errConfig.alertThreshold
    /\ \/ lastLog.fp \notin DOMAIN lastLog.before
       \/ lastLog.at - lastLog.before[lastLog.fp] > errConfig.silenceMinutes

\* C7 amended: recording an event with fingerprint F fires only if at least
\* alertThreshold in-window events of a severity in severityFilter exist,
\* whatever their fingerprints, and F has no AlertRecord entry or one that is
\* more than silenceMinutes old.
C7_CountAllInWindow ==
  lastLog.fired =>
    /\ Cardinality(Counted(lastLog.at)) >= errConfig.alertThreshold
    /\ \/ lastLog.fp \notin DOMAIN lastLog.before
       \/ lastLog.at - lastLog.before[lastLog.fp] > errConfig.silenceMinutes

\* an alert fired by an event whose fingerprint had alerted before
C7_Witness ==
  /\ lastLog.fired
  /\ lastLog.fp \in DOMAIN lastLog.before
  /\ Cardinality(WithFingerprint(InWindowAt(lastLog.at), lastLog.fp))
       < Cardinality(Counted(lastLog.at))

\* C9: an alert fired for F bundles only F's events and writes AlertRecord
\* only for F; every other fingerprint's last-alert time stays as it was.
C9_OnlyOwnFingerprint ==
  lastLog.fired =>
    /\ lastLog.reported = {lastLog.fp}
    /\ \A f \in (DOMAIN alerts \cup DOMAIN lastLog.before) \ {lastLog.fp} :
         /\ f \in DOMAIN lastLog.before
         /\ f \in DOMAIN alerts
         /\ alerts[f] = lastLog.before[f]

-----------------------------------------------------------------------------
(* Claims about the scripted scenario (alertThreshold 10, windowMinutes 60,  *)
(* silenceMinutes 15)                                                        *)

FurtherStarted == logged > Scenario.burst + Scenario.more

\* the burst fires exactly one alert, on its last event; the events of the
\* next minutes fire none
BurstFiresOnce ==
  /\ logged < Scenario.burst => firings = <<>>
  /\ logged >= Scenario.burst =>
       /\ Len(firings) >= 1
       /\ firings[1].call = Scenario.burst
  /\ logged <= Scenario.burst + Scenario.more => Len(firings) <= 1

\* C8 as stated: ... and the further events, recorded from 16 minutes after
\* the firing on, fire exactly one more alert.
C8_ExactlyOneMore ==
  /\ BurstFiresOnce
  /\ FurtherStarted => Len(firings) = 2

\* the events in the window of logError call number `call`
WindowOfCall(call) ==
  {i \in 1..call : errors[i].timestamp >= errors[call].timestamp - errConfig.windowMinutes}

\* C8 amended: the burst fires exactly one alert, on its 10th event; the 5
\* events of the next 10 minutes fire none; the first further event recorded
\* 16 minutes or more after the firing fires one more alert if 10 or more
\* events still lie in its 60-minute window; and any two alerts are more than
\* 15 minutes apart, so no other alert follows within 15 minutes.
C8_OneMorePerSilence ==
  /\ BurstFiresOnce
  /\ (FurtherStarted /\ Cardinality(WindowOfCall(Scenario.burst + Scenario.more + 1))
                          >= errConfig.alertThreshold)
       => /\ Len(firings) >= 2
          /\ firings[2].call = Scenario.burst + Scenario.more + 1
  /\ \A k \in 1..(Len(firings) - 1) :
       firings[k + 1].at - firings[k].at > errConfig.silenceMinutes
  /\ (Len(firings) >= 2 /\ now - firings[2].at <= errConfig.silenceMinutes)
       => Len(firings) = 2

C8_Witness ==
  /\ logged = Scenario.burst + Scenario.more + MaxFurther
  /\ Len(firings) = 2
  /\ firings[2].call = Scenario.burst + Scenario.more + 1
  /\ now > firings[2].at

-----------------------------------------------------------------------------
(* Claims about the release notice *)

\* C11: in a completed check the "release may be needed" condition fired iff
\* the check observed releaseNeeded = true and the stored releaseNotified was
\* not true; once it has fired releaseNotified is true, and while it is true
\* no check fires the condition again and it stays true.
C11_ReleaseFiresIff ==
  \A p \in DOMAIN procs :
    Completed(p) =>
      LET t == Target(procs[p])
          was == procs[p].shadowPrev IN
      /\ procs[p].relFired <=> (procs[p].needed /\ ~was.releaseNotified)
      /\ procs[p].relFired => repoState[t].releaseNotified
      /\ was.releaseNotified => (~procs[p].relFired /\ repoState[t].releaseNotified)

C11_Witness ==
  \E p \in DOMAIN procs :
    /\ Completed(p)
    /\ procs[p].needed
    /\ procs[p].shadowPrev.releaseNotified
    /\ ~procs[p].relFired

\* C12: when a release was published for a target after a release notice,
\* the next release need observed for that target is notified again.
C12_NoticeAfterRelease ==
  \A p \in DOMAIN procs :
    (Completed(p) /\ procs[p].needed /\ released[Target(procs[p])])
      => procs[p].relFired

-----------------------------------------------------------------------------
(* Claims about replayed snapshots *)

\* the scan would hand checkRepo at least one update it may put in a PR
AutoEligible(updates) == FilterAutoUpdates(ScanAutoUpdates(updates)) # {}

\* C13: the first poll of a target (nothing stored) acts on every nonzero/true
\* value of the snapshot: failed builds > 0 are handled, auto-eligible updates
\* get a PR (attempt), a needed release is noticed; and the following cycle,
\* on the identical snapshot, acts on none of them.
C13_FirstPollActsOnce ==
  \A p \in DOMAIN procs :
    Completed(p) =>
      LET was == procs[p].shadowPrev IN
      /\ ~was.present =>
           /\ snapshot.failedBuilds > 0 => procs[p].handled
           /\ AutoEligible(snapshot.updates) => (procs[p].prOpened \/ procs[p].prThrew)
           /\ snapshot.needed => procs[p].relFired
      /\ (was.present /\ checkCount = 2) =>
           /\ ~procs[p].handled
           /\ ~procs[p].prOpened /\ ~procs[p].prThrew
           /\ ~procs[p].relFired

\* C14: every cycle after the first, on the same snapshot, performs no side
\* effect (no notification, no PR, no release notice) and leaves the stored
\* state of the target as the cycle before left it; so N cycles leave the
\* state and the side effects of a single cycle.
C14_ReplayIdempotent ==
  \A p \in DOMAIN procs :
    (Completed(p) /\ checkCount > 1) =>
      /\ procs[p].sent = 0
      /\ ~procs[p].prOpened
      /\ procs[p].depsSent = 0
      /\ ~procs[p].relFired
      /\ repoState[Target(procs[p])] = procs[p].shadowPrev

-----------------------------------------------------------------------------
(* Claims about one check *)

\* C15: in a completed check, each newly detected condition (build failure,
\* dependency update PR, release needed) had its notification dispatched
\* exactly once.
C15_DispatchOncePerCondition ==
  \A p \in DOMAIN procs :
    Completed(p) =>
      /\ procs[p].handled => procs[p].sent = 1
      /\ procs[p].prOpened => procs[p].depsSent = 1
      /\ procs[p].relFired => procs[p].relSent = 1

\* C16: in every cycle each configured target is checked exactly once: no
\* target is checked twice, and when the cycle has ended every target has
\* been checked, whether or not the checks of other targets failed.
C16_EveryTargetOnce ==
  /\ \A t \in Repos : visits[t] <= 1
  /\ (~isRunning /\ checkCount > 0) =>
       \A i \in 1..Len(targets) : visits[targets[i]] = 1
  /\ \A p \in DOMAIN procs :
       (Returned(p) /\ procs[p].result = "failed") =>
         /\ isRunning
         /\ \A i \in 1..Len(targets) :
              visits[targets[i]] = (IF i <= procs[p].idx THEN 1 ELSE 0)

\* a cycle has ended in which the check of r1 failed and the check of r2 completed
C16_Witness ==
  /\ ~isRunning
  /\ lastCheck = DepsEvery
  /\ ~repoState["r1"].present
  /\ repoState["r2"].present
  /\ visits["r1"] = 1 /\ visits["r2"] = 1

\* C18: every started cycle eventually finishes, even when an awaited call
\* of one target never returns: the running flag is cleared again (and later
\* ticks start new cycles).
C18_CycleFinishes == isRunning ~> ~isRunning

\* C17: a check that failed at any step leaves the stored state of its
\* target exactly as it was before the check, no field updated.
C17_FailedCheckKeepsState ==
  \A p \in DOMAIN procs :
    (Returned(p) /\ procs[p].result = "failed") =>
      repoState[Target(procs[p])] = procs[p].shadowPrev

-----------------------------------------------------------------------------
(* Claims about the persisted log *)

\* C19: when several processes record events on the same data directory,
\* once every call has returned the log holds every recorded event exactly
\* once (as some sequential order of the calls would leave it).
C19_Serializable ==
  (\A w \in Writers : writers[w].pc = "idle") =>
    /\ Len(errors) = logged
    /\ \A id \in 1..logged :
         Cardinality({i \in 1..Len(errors) : errors[i].id = id}) = 1

\* C20: after any sequence of logError and acknowledgeError calls the log
\* holds at most 1000 events, and they are the most recently recorded ones
\* in insertion order (the oldest are the ones dropped).
C20_KeepsMostRecent ==
  /\ Len(errors) <= KeepLast
  /\ Len(errors) = Min(logged, KeepLast)
  /\ \A i \in 1..Len(errors) : errors[i].id = logged - Len(errors) + i

\* the log has overflowed and holds an acknowledged event
C20_Witness ==
  /\ logged > KeepLast
  /\ Len(errors) = KeepLast
  /\ errors[1].id > 1
  /\ \E i \in 1..Len(errors) : errors[i].acknowledged

-----------------------------------------------------------------------------
(* Claims about stored events and the monitor's queries *)

\* C21: every stored event has a non-empty fingerprint, and two stored events
\* with equal source, equal first 100 characters of message and equal
\* severity have equal fingerprints.
C21_FingerprintOfStoredFields ==
  \A i, j \in 1..Len(errors) :
    /\ Len(errors[i].fingerprint) > 0
    /\ ( /\ errors[i].source = errors[j].source
         /\ Substring(Chars(errors[i].message), MessagePrefix)
              = Substring(Chars(errors[j].message), MessagePrefix)
         /\ errors[i].severity = errors[j].severity )
         => errors[i].fingerprint = errors[j].fingerprint

\* C22: acknowledgeError(id) on an id in the log returns the event with that
\* id, now with acknowledged = true and acknowledgedAt set, and changes
\* nothing else in the log (other events, order, length); on an id not in the
\* log it returns null and leaves the log as it was; and no step of any
\* operation turns a stored event's acknowledged from true to false.
C22_AcknowledgeMarksOne ==
  /\ [](reply.op = "acknowledgeError" =>
          IF reply.found
            THEN /\ Len(errors) = Len(reply.before)
                 /\ \E k \in 1..Len(errors) :
                      /\ reply.before[k].id = reply.args
                      /\ errors[k] = reply.result
                      /\ errors[k].acknowledged
                      /\ errors[k].acknowledgedAt = reply.at
                      /\ [errors[k] EXCEPT
                            !.acknowledged = reply.before[k].acknowledged,
                            !.acknowledgedAt = reply.before[k].acknowledgedAt]
                           = reply.before[k]
                      /\ \A i \in 1..Len(errors) : i # k => errors[i] = reply.before[i]
            ELSE \A i \in 1..Len(errors) : errors[i].id # reply.args)
  /\ [][ /\ (reply'.op = "acknowledgeError" /\ ~reply'.found) => errors' = errors
         /\ \A i \in 1..Len(errors) : \A j \in 1..Len(errors') :
              (errors[i].acknowledged /\ errors'[j].id = errors[i].id)
                => errors'[j].acknowledged ]_vars

\* the second of two stored events was acknowledged, some time after it was recorded
C22_Witness ==
  /\ reply.op = "acknowledgeError"
  /\ reply.found
  /\ Len(errors) = 2
  /\ reply.args = 2
  /\ ~reply.before[2].acknowledged
  /\ reply.at > errors[2].timestamp

\* the stored events a summary asked for at `time` with `options` is about
Matching(time, options) ==
  {i \in 1..Len(errors) :
     /\ errors[i].timestamp >= time - options.hours * MinutesPerHour
     /\ errors[i].timestamp <= time
     /\ (options.severity # "" => errors[i].severity = options.severity)
     /\ (options.source # "" => errors[i].source = options.source)}

RECURSIVE SumOfCounts(_)
SumOfCounts(counts) ==
  IF Len(counts) = 0 THEN 0
  ELSE counts[1].count + SumOfCounts(SubSeq(counts, 2, Len(counts)))

\* C23: getErrorSummary's totalErrors is the number of stored events inside
\* the period that match the filter; bySeverity, bySource and the
\* per-fingerprint counts equal a tally by hand of those events; and the
\* bySeverity counts and the bySource counts each sum to totalErrors.
C23_SummaryIsTally ==
  reply.op = "getErrorSummary" =>
    LET M == Matching(reply.at, reply.args)
        r == reply.result IN
    /\ r.totalErrors = Cardinality(M)
    /\ {r.bySeverity[k].key : k \in 1..Len(r.bySeverity)} = {errors[i].severity : i \in M}
    /\ \A k \in 1..Len(r.bySeverity) :
         r.bySeverity[k].count
           = Cardinality({i \in M : errors[i].severity = r.bySeverity[k].key})
    /\ {r.bySource[k].key : k \in 1..Len(r.bySource)} = {errors[i].source : i \in M}
    /\ \A k \in 1..Len(r.bySource) :
         r.bySource[k].count
           = Cardinality({i \in M : errors[i].source = r.bySource[k].key})
    /\ \A k \in 1..Len(r.topErrors) :
         r.topErrors[k].count
           = Cardinality({i \in M : errors[i].fingerprint = r.topErrors[k].fingerprint})
    /\ SumOfCounts(r.bySeverity) = r.totalErrors
    /\ SumOfCounts(r.bySource) = r.totalErrors

\* a summary of the last hour that counts one of two stored events: the
\* other one is older than the period
C23_Witness ==
  /\ reply.op = "getErrorSummary"
  /\ reply.args.hours = 1
  /\ Len(errors) = 2
  /\ errors[1].timestamp < reply.at - MinutesPerHour
  /\ reply.result.totalErrors = 1

\* the place in the log of the most recent counted event with fingerprint fp
LastSeen(M, fp) ==
  CHOOSE i \in M : /\ errors[i].fingerprint = fp
                   /\ \A j \in M : errors[j].fingerprint = fp => j <= i

\* C24: the top-fingerprints list of a summary has at most 5 entries, holds
\* the fingerprints with the highest counts, is sorted by count descending,
\* and among equal counts puts the fingerprint whose latest event is the
\* more recent first.
C24_TopErrorsOrder ==
  reply.op = "getErrorSummary" =>
    LET M == Matching(reply.at, reply.args)
        top == reply.result.topErrors
        listed == {top[k].fingerprint : k \in 1..Len(top)} IN
    /\ Len(top) <= TopLimit
    /\ \A i \in M : errors[i].fingerprint \notin listed =>
         \A k \in 1..Len(top) :
           top[k].count >= Cardinality({j \in M : errors[j].fingerprint
                                                    = errors[i].fingerprint})
    /\ \A a, b \in 1..Len(top) : a < b =>
         \/ top[a].count > top[b].count
         \/ /\ top[a].count = top[b].count
            /\ LastSeen(M, top[a].fingerprint) > LastSeen(M, top[b].fingerprint)

\* C30: for every limit >= 0 getUnacknowledgedErrors returns at most `limit`
\* events: the most recently recorded unacknowledged events (of the asked
\* severity, when one is given), in insertion order.
C30_LatestUnacknowledged ==
  reply.op = "getUnacknowledgedErrors" =>
    LET wanted == SelectSeq(errors, LAMBDA e :
                    /\ ~e.acknowledged
                    /\ (reply.args.severity # "" => e.severity = reply.args.severity))
        n == Min(reply.args.limit, Len(wanted)) IN
    /\ Len(reply.result) <= reply.args.limit
    /\ reply.result = SubSeq(wanted, Len(wanted) - n + 1, Len(wanted))

-----------------------------------------------------------------------------
(* Further claims about the alert threshold *)

\* C26: the count compared with alertThreshold by a logError call is the
\* number of stored events whose timestamp lies in the trailing windowMinutes
\* (window start included) and whose severity is in severityFilter; an alert
\* fires only when that count reaches the threshold, so older events and
\* events of other severities never help to reach it.
C26_CountsWindowAndFilter ==
  /\ lastLog.count = Cardinality(Counted(lastLog.at))
  /\ lastLog.fired => lastLog.count >= errConfig.alertThreshold

\* an alert fired while the log also held an event older than the window and
\* an in-window event of a severity outside the filter
C26_Witness ==
  /\ lastLog.fired
  /\ \E i \in 1..Len(errors) : errors[i].timestamp < lastLog.at - errConfig.windowMinutes
  /\ \E i \in InWindowAt(lastLog.at) : errors[i].severity \notin errConfig.severityFilter
  /\ \E i \in 1..Len(errors) : errors[i].timestamp = lastLog.at - errConfig.windowMinutes

\* C27: whenever recording an event, of any severity, fires an alert, the
\* AlertRecord afterwards holds the firing time under that event's own
\* fingerprint (which is what silences the next event of that fingerprint).
C27_OwnFingerprintRecorded ==
  lastLog.fired =>
    /\ lastLog.fp \in DOMAIN alerts
    /\ alerts[lastLog.fp] = lastLog.at

-----------------------------------------------------------------------------
(* Further claims about the daemon *)

\* C25: whenever no cycle is in progress the running flag is false, also
\* after cycles whose checks failed; so a tick that arrives after a cycle has
\* ended is not skipped: it starts a new cycle.
C25_FlagClearedAtEnd ==
  /\ [](isRunning <=> InFlight # {})
  /\ [][(InFlight = {} /\ tick' # tick) =>
          /\ ~tick'.skipped
          /\ isRunning'
          /\ checkCount' = checkCount + 1]_vars

\* the only check of the first cycle failed, and the next tick started cycle 2
C25_Witness ==
  /\ isRunning
  /\ checkCount = 2
  /\ ~tick.skipped
  /\ ~repoState["r1"].present

\* C28: checkCount goes up by exactly one when a cycle starts and at no other
\* step (not at a skipped tick); the dependency scan, the PR creation and its
\* notification run only in cycles whose checkCount is a multiple of 4; in
\* every other cycle no PR is opened and no stored pendingDepsPR changes.
C28_ScanEveryFourth ==
  /\ [](\A p \in DOMAIN procs :
          procs[p].pc \in {"scan", "createPR", "notifyDeps"} => checkCount % DepsEvery = 0)
  /\ [][ /\ checkCount' # checkCount =>
              (checkCount' = checkCount + 1 /\ ~isRunning /\ isRunning' /\ ~tick'.skipped)
         /\ (~isRunning /\ isRunning') => checkCount' = checkCount + 1
         /\ (tick' # tick /\ tick'.skipped) => checkCount' = checkCount
         /\ checkCount % DepsEvery # 0 =>
              /\ prCount' = prCount
              /\ \A t \in Repos :
                   repoState'[t].pendingDepsPR = repoState[t].pendingDepsPR ]_vars

\* cycle 4 opened a PR and stored its number
C28_Witness ==
  /\ checkCount = DepsEvery
  /\ prCount["r1"] = 1
  /\ repoState["r1"].pendingDepsPR = 1

\* C29: the updates handed to an automatically opened PR are never empty and
\* are all of a type (minor, patch) enabled in config.deps.autoUpdate: a major
\* update found by the scan is left out, also when eligible updates go in.
C29_OnlyEnabledMinorPatch ==
  \A p \in DOMAIN procs :
    (procs[p].pc \in {"createPR", "notifyDeps"} \/ procs[p].prOpened \/ procs[p].prThrew) =>
      /\ procs[p].updates # {}
      /\ procs[p].updates \subseteq snapshot.updates
      /\ "major" \notin procs[p].updates
      /\ \A u \in procs[p].updates : u \in {"minor", "patch"} /\ AutoUpdate[u]

\* a PR was opened although the scan also found a major update
C29_Witness ==
  \E p \in DOMAIN procs :
    /\ procs[p].prOpened
    /\ "major" \in snapshot.updates
    /\ procs[p].updates # {}

=============================================================================
